---- MODULE Spec2Model ----
(***************************************************************************)
(* A model of react-docgen's extraction core:                              *)
(*   src/src/parse.js               parse, executeHandlers                 *)
(*   src/src/utils/expressionTo.js  toArray, toString                      *)
(* ParseSpec is the pipeline of parse.js, one action per step of a call.   *)
(* ExprSpec is expressionTo.js run as a machine with an explicit call      *)
(* stack, one frame per activation of toArray.                             *)
(***************************************************************************)
EXTENDS Integers, Sequences, FiniteSets, TLC

VARIABLES
    \* ---- parse.js ----
    pc,                    \* position of the current parse call
    handlers,              \* parse's argument `handlers`
    componentDefinitions,  \* what resolver(ast.program, recast) returned
    wrapped,               \* executeHandlers was given the resolver's own array
    ci,                    \* index of the candidate map() is at
    hi,                    \* index of the handler forEach() is at
    documentation,         \* identity of the candidate's Documentation (0: none)
    heap,                  \* live Documentation instances, by identity
    nextDoc,               \* identities handed out so far, plus one
    docs,                  \* what map() has collected
    result,                \* what parse returned
    error,                 \* what parse threw
    log,                   \* history: handler invocations and normalisations
    \* ---- expressionTo.js ----
    entry,                 \* the exported function called: "toArray" or "toString"
    input,                 \* the node of the path it was called with
    stack,                 \* activations of toArray, innermost last
    resolution,            \* resolveToValue's answers so far, by key name
    status,                \* "running", "returned" or "threw"
    retval                 \* what the call returned

varsParse == <<pc, handlers, componentDefinitions, wrapped, ci, hi, documentation,
               heap, nextDoc, docs, result, error, log>>
varsExpr == <<entry, input, stack, resolution, status, retval>>
vars == <<varsParse, varsExpr>>

(***************************************************************************)
(* Bounds of the model.                                                    *)
(***************************************************************************)
MaxHandlers == 2      \* longest handler list
MaxCandidates == 2    \* longest array a resolver returns
MaxDocs == 5          \* Documentation instances allocated over all calls
MaxChain == 3         \* calls and property accesses above the root of an input chain
MaxItems == 3         \* longest object or array literal of an input
MaxNest == 1          \* literals an input literal is wrapped in

(***************************************************************************)
(* Array.prototype.reverse and .join, and the sequences the inputs are     *)
(* drawn from.                                                             *)
(***************************************************************************)
\* A variant returning the segments as collected, leaf first.
NotReversed(s) == s

\* expressionTo.js 76: result.reverse()
Reverse(s) == [i \in 1..Len(s) |-> s[Len(s) + 1 - i]]

\* expressionTo.js 61, 69, 83: join(sep)
RECURSIVE Join(_, _)
Join(s, sep) ==
    IF Len(s) = 0 THEN ""
    ELSE IF Len(s) = 1 THEN s[1]
    ELSE s[1] \o sep \o Join(Tail(s), sep)

SeqsUpTo(S, n) == UNION {[1..k -> S] : k \in 0..n}

(***************************************************************************)
(* parse.js                                                                *)
(***************************************************************************)
ERROR_MISSING_DEFINITION == "No suitable component definition found."

\* Candidate nodes are opaque to parse.js.
Nodes == {"A", "B", "C"}

\* What a resolver may return: an array of nodes, one node, or a falsy value.
ArrayOf(ns) == [tag |-> "array", items |-> ns]
NodeValue(n) == [tag |-> "node", items |-> <<n>>]
FalsyValues == {[tag |-> t, items |-> <<>>] :
                   t \in {"undefined", "null", "false", "0", "NaN", "''"}}
ResolverResults ==
    {ArrayOf(ns) : ns \in SeqsUpTo(Nodes, MaxCandidates)}
        \cup {NodeValue(n) : n \in Nodes} \cup FalsyValues

IsArray(v) == v.tag = "array"
Truthy(v) == v \notin FalsyValues

\* The Documentation accumulator and the handlers that write to it.
EmptyDocumentation == [description |-> "", composes |-> <<>>, props |-> {}]

HandlerKinds == {"description", "props", "composes", "failing"}

\* The failing handler throws on node "C" only.
HandlerThrows(h, node) == h = "failing" /\ node = "C"
HandlerError(h, node) == "HandlerError: " \o h \o " on " \o node

ApplyHandler(h, doc, node) ==
    CASE h = "description" -> [doc EXCEPT !.description = node]
      [] h = "props" ->
            IF doc.description = "" THEN doc
            ELSE [doc EXCEPT !.props = @ \cup {doc.description}]
      [] h = "composes" -> [doc EXCEPT !.composes = Append(@, node)]
      [] OTHER -> doc

\* documentation.toObject() followed by postProcessDocumentation: empty slots are
\* dropped and the composes list is deduplicated, first occurrences kept.
RECURSIVE Dedup(_)
Dedup(s) ==
    IF s = <<>> THEN <<>>
    ELSE LET front == Dedup(SubSeq(s, 1, Len(s) - 1))
             last == s[Len(s)]
         IN IF \E i \in 1..Len(front) : front[i] = last THEN front
            ELSE Append(front, last)

postProcessDocumentation(doc) ==
    LET slots == (IF doc.description = "" THEN {} ELSE {"description"})
                     \cup (IF doc.composes = <<>> THEN {} ELSE {"composes"})
                     \cup (IF doc.props = {} THEN {} ELSE {"props"})
    IN [s \in slots |->
            CASE s = "description" -> doc.description
              [] s = "composes" -> Dedup(doc.composes)
              [] OTHER -> doc.props]

NoResult == [wrapped |-> FALSE, docs |-> <<>>, returned |-> FALSE]
NoError == "none"

\* History entries: the i-th handler call of a candidate (fn: the handler called,
\* node and doc: its arguments, seen: the record's content on entry), and the
\* normalisation of a candidate's record.
HandlerEvent(c, i, fn, node, d, seen) ==
    [kind |-> "handler", cand |-> c, handler |-> i, fn |-> fn, node |-> node,
     doc |-> d, seen |-> seen]
NormalizeEvent(c, node, d, seen) ==
    [kind |-> "normalize", cand |-> c, handler |-> 0, fn |-> "postProcess",
     node |-> node, doc |-> d, seen |-> seen]

Init ==
    /\ pc = "idle"
    /\ handlers = <<>>
    /\ componentDefinitions = ArrayOf(<<>>)
    /\ wrapped = FALSE
    /\ ci = 0
    /\ hi = 0
    /\ documentation = 0
    /\ heap = <<>>
    /\ nextDoc = 1
    /\ docs = <<>>
    /\ result = NoResult
    /\ error = NoError
    /\ log = <<>>
    /\ entry = "toArray"
    /\ input = [type |-> "ThisExpression"]
    /\ stack = <<>>
    /\ resolution = <<>>
    /\ status = "idle"
    /\ retval = <<>>

\* parse.js 58-59: a call of parse, up to the resolver's return.  The objects of
\* an earlier call are unreachable by now; their identities stay used.
Parse ==
    /\ pc = "idle"
    /\ \E hs \in SeqsUpTo(HandlerKinds, MaxHandlers), cd \in ResolverResults :
          /\ nextDoc + Len(cd.items) - 1 <= MaxDocs
          /\ handlers' = hs
          /\ componentDefinitions' = cd
    /\ pc' = "dispatch"
    /\ wrapped' = FALSE
    /\ ci' = 0
    /\ hi' = 0
    /\ documentation' = 0
    /\ heap' = <<>>
    /\ docs' = <<>>
    /\ result' = NoResult
    /\ error' = NoError
    /\ log' = <<>>
    /\ UNCHANGED <<nextDoc, varsExpr>>

\* A variant of parse.js 62-64 that lets an empty array through to executeHandlers.
ReturnEmptyArray ==
    /\ pc = "dispatch"
    /\ IsArray(componentDefinitions)
    /\ Len(componentDefinitions.items) = 0
    /\ pc' = "map"
    /\ wrapped' = TRUE
    /\ ci' = 1
    /\ UNCHANGED <<varsExpr, handlers, componentDefinitions, hi, documentation, heap,
                   nextDoc, docs, result, error, log>>

\* parse.js 61-64
ThrowEmptyArray ==
    /\ pc = "dispatch"
    /\ IsArray(componentDefinitions)
    /\ Len(componentDefinitions.items) = 0
    /\ pc' = "threw"
    /\ error' = ERROR_MISSING_DEFINITION
    /\ UNCHANGED <<varsExpr, handlers, componentDefinitions, wrapped, ci, hi, documentation,
                   heap, nextDoc, docs, result, log>>

\* parse.js 65: executeHandlers(handlers, componentDefinitions)
DispatchArray ==
    /\ pc = "dispatch"
    /\ IsArray(componentDefinitions)
    /\ Len(componentDefinitions.items) # 0
    /\ pc' = "map"
    /\ wrapped' = TRUE
    /\ ci' = 1
    /\ UNCHANGED <<varsExpr, handlers, componentDefinitions, hi, documentation, heap, nextDoc,
                   docs, result, error, log>>

\* parse.js 66-67: executeHandlers(handlers, [componentDefinitions])
DispatchSingle ==
    /\ pc = "dispatch"
    /\ ~IsArray(componentDefinitions)
    /\ Truthy(componentDefinitions)
    /\ pc' = "map"
    /\ wrapped' = FALSE
    /\ ci' = 1
    /\ UNCHANGED <<varsExpr, handlers, componentDefinitions, hi, documentation, heap, nextDoc,
                   docs, result, error, log>>

\* parse.js 70
ThrowFalsy ==
    /\ pc = "dispatch"
    /\ ~IsArray(componentDefinitions)
    /\ ~Truthy(componentDefinitions)
    /\ pc' = "threw"
    /\ error' = ERROR_MISSING_DEFINITION
    /\ UNCHANGED <<varsExpr, handlers, componentDefinitions, wrapped, ci, hi, documentation,
                   heap, nextDoc, docs, result, log>>

\* A variant with the Documentation hoisted out of map's callback: one record
\* for the whole batch.
SharedDocumentation ==
    /\ pc = "map"
    /\ ci <= Len(componentDefinitions.items)
    /\ nextDoc <= MaxDocs
    /\ IF ci = 1
       THEN /\ documentation' = nextDoc
            /\ heap' = (nextDoc :> EmptyDocumentation)
            /\ nextDoc' = nextDoc + 1
       ELSE UNCHANGED <<documentation, heap, nextDoc>>
    /\ hi' = 1
    /\ pc' = "forEach"
    /\ UNCHANGED <<varsExpr, handlers, componentDefinitions, wrapped, ci, docs, result, error, log>>

\* parse.js 23-25: map's callback begins; const documentation = new Documentation()
NewDocumentation ==
    /\ pc = "map"
    /\ ci <= Len(componentDefinitions.items)
    /\ nextDoc <= MaxDocs
    /\ documentation' = nextDoc
    /\ heap' = heap @@ (nextDoc :> EmptyDocumentation)
    /\ nextDoc' = nextDoc + 1
    /\ hi' = 1
    /\ pc' = "forEach"
    /\ UNCHANGED <<varsExpr, handlers, componentDefinitions, wrapped, ci, docs, result, error, log>>

\* A variant visiting the handlers last to first.
ReversedOrder(hs, i) == hs[Len(hs) + 1 - i]

\* parse.js 26: forEach visits the handlers in the array's own order.
HandlerAt(hs, i) == hs[i]

\* parse.js 26: handler(documentation, componentDefinition), returning normally
InvokeHandler ==
    /\ pc = "forEach"
    /\ hi <= Len(handlers)
    /\ LET h == HandlerAt(handlers, hi)
           node == componentDefinitions.items[ci]
       IN /\ ~HandlerThrows(h, node)
          /\ heap' = [heap EXCEPT ![documentation] = ApplyHandler(h, @, node)]
          /\ log' = Append(log, HandlerEvent(ci, hi, h, node, documentation,
                                                 heap[documentation]))
    /\ hi' = hi + 1
    /\ UNCHANGED <<varsExpr, pc, handlers, componentDefinitions, wrapped, ci, documentation,
                   nextDoc, docs, result, error>>

\* A variant that swallows the handler's exception and goes on.
SwallowHandlerError ==
    /\ pc = "forEach"
    /\ hi <= Len(handlers)
    /\ LET h == HandlerAt(handlers, hi)
           node == componentDefinitions.items[ci]
       IN /\ HandlerThrows(h, node)
          /\ log' = Append(log, HandlerEvent(ci, hi, h, node, documentation,
                                                 heap[documentation]))
    /\ hi' = hi + 1
    /\ UNCHANGED <<varsExpr, pc, handlers, componentDefinitions, wrapped, ci, documentation,
                   heap, nextDoc, docs, result, error>>

\* parse.js 26, 23, 65/67: the handler throws; nothing catches it on the way out
\* of forEach, map, executeHandlers and parse.
HandlerFails ==
    /\ pc = "forEach"
    /\ hi <= Len(handlers)
    /\ LET h == HandlerAt(handlers, hi)
           node == componentDefinitions.items[ci]
       IN /\ HandlerThrows(h, node)
          /\ error' = HandlerError(h, node)
          /\ log' = Append(log, HandlerEvent(ci, hi, h, node, documentation,
                                                 heap[documentation]))
    /\ pc' = "threw"
    /\ UNCHANGED <<varsExpr, handlers, componentDefinitions, wrapped, ci, hi, documentation,
                   heap, nextDoc, docs, result>>

\* parse.js 27: return postProcessDocumentation(documentation.toObject())
PostProcess ==
    /\ pc = "forEach"
    /\ hi > Len(handlers)
    /\ docs' = Append(docs, postProcessDocumentation(heap[documentation]))
    /\ log' = Append(log, NormalizeEvent(ci, componentDefinitions.items[ci], documentation,
                                         heap[documentation]))
    /\ ci' = ci + 1
    /\ pc' = "map"
    /\ UNCHANGED <<varsExpr, handlers, componentDefinitions, wrapped, hi, documentation, heap,
                   nextDoc, result, error>>

\* A variant that hands a single node's result back still wrapped in the array.
ReturnWrapped ==
    /\ pc = "map"
    /\ ci > Len(componentDefinitions.items)
    /\ result' = [wrapped |-> TRUE, docs |-> docs, returned |-> TRUE]
    /\ pc' = "returned"
    /\ UNCHANGED <<varsExpr, handlers, componentDefinitions, wrapped, ci, hi, documentation,
                   heap, nextDoc, docs, error, log>>

\* parse.js 65, 67: the array map() built, or its element [0]
Return ==
    /\ pc = "map"
    /\ ci > Len(componentDefinitions.items)
    /\ result' = [wrapped |-> wrapped,
                  docs |-> IF wrapped THEN docs ELSE <<docs[1]>>,
                  returned |-> TRUE]
    /\ pc' = "returned"
    /\ UNCHANGED <<varsExpr, handlers, componentDefinitions, wrapped, ci, hi, documentation,
                   heap, nextDoc, docs, error, log>>

\* parse has returned or thrown: its locals are gone, the caller goes on.
Reset ==
    /\ pc \in {"returned", "threw"}
    /\ pc' = "idle"
    /\ handlers' = <<>>
    /\ componentDefinitions' = ArrayOf(<<>>)
    /\ wrapped' = FALSE
    /\ ci' = 0
    /\ hi' = 0
    /\ documentation' = 0
    /\ heap' = <<>>
    /\ docs' = <<>>
    /\ result' = NoResult
    /\ error' = NoError
    /\ log' = <<>>
    /\ UNCHANGED <<nextDoc, varsExpr>>

ParseNext ==
    \/ Parse
    \/ ThrowEmptyArray
    \/ DispatchArray
    \/ DispatchSingle
    \/ ThrowFalsy
    \/ NewDocumentation
    \/ InvokeHandler
    \/ HandlerFails
    \/ PostProcess
    \/ Return
    \/ Reset

ParseSpec == Init /\ [][ParseNext]_vars

(***************************************************************************)
(* What parse is to compute, said without the machine: the handlers folded *)
(* over an empty record, then normalised.                                  *)
(***************************************************************************)
RECURSIVE FoldHandlers(_, _, _)
FoldHandlers(hs, doc, node) ==
    IF hs = <<>> THEN doc
    ELSE FoldHandlers(Tail(hs), ApplyHandler(Head(hs), doc, node), node)

DocOf(hs, node) == postProcessDocumentation(FoldHandlers(hs, EmptyDocumentation, node))

Candidates == componentDefinitions.items
ParseDone == pc \in {"returned", "threw"}
SomeHandlerFails ==
    \E c \in 1..Len(Candidates), i \in 1..Len(handlers) :
        HandlerThrows(handlers[i], Candidates[c])
NoDefinition ==
    \/ IsArray(componentDefinitions) /\ Len(Candidates) = 0
    \/ ~IsArray(componentDefinitions) /\ ~Truthy(componentDefinitions)

\* C1: when the resolver returns an array of N >= 1 nodes and no handler fails,
\* parse returns an array of exactly N documentation objects, the i-th made from
\* the i-th node; when it returns one truthy non-array node, parse returns one
\* documentation object, not wrapped in an array.
C1_ResultMirrorsResolver ==
    (ParseDone /\ ~NoDefinition /\ ~SomeHandlerFails) =>
        /\ pc = "returned"
        /\ result.returned
        /\ IsArray(componentDefinitions) =>
              /\ result.wrapped
              /\ Len(result.docs) = Len(Candidates)
              /\ \A i \in 1..Len(Candidates) :
                    result.docs[i] = DocOf(handlers, Candidates[i])
        /\ ~IsArray(componentDefinitions) =>
              /\ ~result.wrapped
              /\ result.docs = <<DocOf(handlers, Candidates[1])>>

C1_Witness ==
    /\ pc = "returned"
    /\ IsArray(componentDefinitions)
    /\ Len(Candidates) = 2
    /\ Len(result.docs) = 2
    /\ result.docs[1] # result.docs[2]

\* C2: when the resolver returns an empty array or a falsy value, parse throws the
\* error with the fixed message and returns nothing, whatever the handlers; no
\* handler is called.
C2_MissingDefinition ==
    (pc \notin {"idle", "dispatch"} /\ NoDefinition) =>
        /\ pc = "threw"
        /\ error = "No suitable component definition found."
        /\ error = ERROR_MISSING_DEFINITION
        /\ result = NoResult
        /\ log = <<>>

C2_Witness ==
    /\ pc = "threw"
    /\ IsArray(componentDefinitions)
    /\ Len(Candidates) = 0
    /\ Len(handlers) >= 1
    /\ error = ERROR_MISSING_DEFINITION

\* The k-th entry of the history of a call that runs to its end: candidate by
\* candidate, the handlers first to last, then the normalisation.
BlockLen == Len(handlers) + 1
CandOf(k) == ((k - 1) \div BlockLen) + 1
StepOf(k) == ((k - 1) % BlockLen) + 1

\* C3: handlers are called candidate by candidate and, for each candidate, in the
\* order given, once each, with the candidate's own record and node; a record is
\* normalised once, after the last handler; each handler finds in the record what
\* the handlers before it wrote.
C3_InvocationOrder ==
    /\ \A k \in 1..Len(log) :
          LET e == log[k]
              c == CandOf(k)
              j == StepOf(k)
          IN /\ c <= Len(Candidates)
             /\ e.cand = c
             /\ e.node = Candidates[c]
             /\ e.doc = log[k - j + 1].doc
             /\ e.seen = FoldHandlers(SubSeq(handlers, 1, j - 1),
                                      EmptyDocumentation, Candidates[c])
             /\ IF j <= Len(handlers)
                THEN e.kind = "handler" /\ e.handler = j /\ e.fn = handlers[j]
                ELSE e.kind = "normalize"
    /\ pc = "returned" => Len(log) = Len(Candidates) * BlockLen

C3_Witness ==
    /\ pc = "returned"
    /\ Len(Candidates) = 2
    /\ handlers = <<"description", "props">>
    /\ Len(log) = 6
    /\ log[2].seen.description = Candidates[1]
    /\ log[5].seen.description = Candidates[2]

\* C4: if a handler fails on a candidate, its error leaves parse as it is, the
\* failing call is the last thing done, and parse returns nothing, also for the
\* candidates already processed.
C4_WholeBatchFailure ==
    /\ (ParseDone /\ SomeHandlerFails) =>
          /\ pc = "threw"
          /\ result = NoResult
          /\ Len(log) >= 1
          /\ LET e == log[Len(log)]
             IN /\ e.kind = "handler"
                /\ HandlerThrows(e.fn, e.node)
                /\ error = HandlerError(e.fn, e.node)
          /\ \A k \in 1..(Len(log) - 1) :
                log[k].kind = "handler" => ~HandlerThrows(log[k].fn, log[k].node)
    /\ (pc = "threw" /\ ~NoDefinition) => SomeHandlerFails

C4_Witness ==
    /\ pc = "threw"
    /\ Len(Candidates) = 2
    /\ ci = 2
    /\ Len(docs) = 1
    /\ result = NoResult
    /\ error = HandlerError("failing", "C")

\* C5: every candidate gets a record of its own, empty when its first handler
\* gets it, never one handed out before, in this call or an earlier one; a handler
\* call leaves the records of the other candidates as they were.
C5_RecordIsolation ==
    /\ \A k \in 1..Len(log) :
          /\ \A m \in 1..Len(log) : log[k].cand # log[m].cand => log[k].doc # log[m].doc
          /\ StepOf(k) = 1 => log[k].seen = EmptyDocumentation
          /\ log[k].doc \in DOMAIN heap
          /\ log[k].doc < nextDoc
    /\ pc = "forEach" =>
          /\ documentation \in DOMAIN heap
          /\ \A k \in 1..Len(log) : log[k].cand # ci => log[k].doc # documentation
    /\ \A c \in 1..Len(docs) :
          \E k \in 1..Len(log) :
              /\ log[k].kind = "normalize"
              /\ log[k].cand = c
              /\ heap[log[k].doc] = log[k].seen

C5_Witness ==
    /\ pc = "returned"
    /\ Len(Candidates) = 2
    /\ Candidates[1] = Candidates[2]
    /\ handlers = <<"composes", "composes">>
    /\ log[1].doc > 2
    /\ log[4].doc # log[1].doc

(***************************************************************************)
(* expressionTo.js                                                         *)
(***************************************************************************)
\* The syntax nodes toArray tells apart (a call's arguments are never read).
Identifier(name) == [type |-> "Identifier", name |-> name]
Literal(raw) == [type |-> "Literal", raw |-> raw]
ThisExpression == [type |-> "ThisExpression"]
CallExpression(callee) == [type |-> "CallExpression", callee |-> callee]
MemberExpression(object, property, computed) ==
    [type |-> "MemberExpression", object |-> object, property |-> property,
     computed |-> computed]
Property(key, value) == [key |-> key, value |-> value]
ObjectExpression(properties) == [type |-> "ObjectExpression", properties |-> properties]
ArrayExpression(elements) == [type |-> "ArrayExpression", elements |-> elements]
\* A node of a kind toArray has no branch for.
FunctionExpression == [type |-> "FunctionExpression"]

\* resolveToValue's answer for a key it cannot resolve.
Undefined == [type |-> "undefined"]

\* The inputs of the model: chains over a root, and literals.
Roots == {Identifier("foo"), ThisExpression, Literal("1"), FunctionExpression}

Links(c) ==
    {CallExpression(c),
     MemberExpression(c, Identifier("b"), FALSE),
     MemberExpression(c, Identifier("c"), FALSE),
     MemberExpression(c, Identifier("k"), TRUE)}

RECURSIVE Chains(_)
Chains(n) ==
    IF n = 0 THEN Roots
    ELSE LET shorter == Chains(n - 1)
         IN shorter \cup UNION {Links(c) : c \in shorter}

Atoms == {Literal("1"), Literal("2"),
          MemberExpression(ThisExpression, Identifier("b"), FALSE)}
Properties == {Property(k, v) : k \in {Identifier("a"), Identifier("b")},
                                v \in {Literal("1"), Literal("2")}}
FlatLiterals ==
    {ArrayExpression(es) : es \in SeqsUpTo(Atoms, MaxItems)}
        \cup {ObjectExpression(ps) : ps \in SeqsUpTo(Properties, MaxItems)}

RECURSIVE NestedLiterals(_)
NestedLiterals(n) ==
    IF n = 0 THEN FlatLiterals
    ELSE LET inner == NestedLiterals(n - 1)
         IN inner
              \cup {ArrayExpression(<<Literal("1"), x>>) : x \in inner}
              \cup {ObjectExpression(<<Property(Identifier("a"), x)>>) : x \in inner}

Inputs == Chains(MaxChain) \cup NestedLiterals(MaxNest)

\* What resolveToValue may answer for a key: undefined, or the path of the
\* expression the key is bound to, which may itself use a key.
ResolveTargets ==
    {Literal("'bar'"),
     MemberExpression(Identifier("a"), Identifier("b"), FALSE),
     MemberExpression(Identifier("foo"), Identifier("k"), TRUE),
     MemberExpression(Identifier("a"), Identifier("j"), TRUE)}
ResolveOutcomes == ResolveTargets \cup {Undefined}

\* resolveToValue is a function of the tree: asked again, it answers the same.
resolveToValue(key, answer) ==
    /\ answer \in ResolveOutcomes
    /\ key \in DOMAIN resolution => answer = resolution[key]

\* Activations of toArray the engine's call stack holds; deeper than any input
\* of the model needs when no key resolves to an expression using itself.
MaxStack == MaxNest + 5

\* An activation of toArray: its locals `parts` and `result`, and, while it waits
\* for a call it made, what it does with the answer (op) and the state of the
\* map() it is in (items left, strings made, the key's string).
Frame(node) ==
    [parts |-> <<node>>, result |-> <<>>, op |-> "loop", items |-> <<>>,
     strs |-> <<>>, key |-> ""]

Top == stack[Len(stack)]
Below == SubSeq(stack, 1, Len(stack) - 1)
AtNode(type) ==
    /\ status = "running"
    /\ Top.op = "loop"
    /\ Len(Top.parts) > 0
    /\ Head(Top.parts).type = type
Node == Head(Top.parts)
KnownTypes == {"CallExpression", "MemberExpression", "Identifier", "Literal",
               "ThisExpression", "ObjectExpression", "ArrayExpression"}

\* A call of one of the two exported functions.
Invoke ==
    /\ status = "idle"
    /\ \E e \in {"toArray", "toString"}, n \in Inputs :
          /\ entry' = e
          /\ input' = n
          /\ stack' = <<Frame(n)>>
    /\ status' = "running"
    /\ UNCHANGED <<varsParse, resolution, retval>>

\* expressionTo.js 30-32
StepCallExpression ==
    /\ AtNode("CallExpression")
    /\ stack' = Append(Below, [Top EXCEPT !.parts = Append(Tail(@), Node.callee)])
    /\ UNCHANGED <<varsParse, entry, input, resolution, status, retval>>

\* expressionTo.js 33-35, 42-45
StepStaticMember ==
    /\ AtNode("MemberExpression")
    /\ ~Node.computed
    /\ stack' = Append(Below, [Top EXCEPT !.parts = Append(Tail(@), Node.object),
                                          !.result = Append(@, Node.property.name)])
    /\ UNCHANGED <<varsParse, entry, input, resolution, status, retval>>

\* expressionTo.js 33-38: the key resolves; toArray(resolvedPath) is called
StepComputedResolved ==
    /\ AtNode("MemberExpression")
    /\ Node.computed
    /\ Len(stack) < MaxStack
    /\ \E resolvedPath \in ResolveOutcomes :
          /\ resolveToValue(Node.property, resolvedPath)
          /\ resolvedPath # Undefined
          /\ resolution' = (Node.property :> resolvedPath) @@ resolution
          /\ stack' = Append(Append(Below,
                                    [Top EXCEPT !.parts = Append(Tail(@), Node.object),
                                                !.op = "concat"]),
                             Frame(resolvedPath))
    /\ UNCHANGED <<varsParse, entry, input, status, retval>>

\* expressionTo.js 33-37, 39-41
StepComputedUnresolved ==
    /\ AtNode("MemberExpression")
    /\ Node.computed
    /\ resolveToValue(Node.property, Undefined)
    /\ resolution' = (Node.property :> Undefined) @@ resolution
    /\ stack' = Append(Below, [Top EXCEPT !.parts = Append(Tail(@), Node.object),
                                          !.result = Append(@, "<computed>")])
    /\ UNCHANGED <<varsParse, entry, input, status, retval>>

\* expressionTo.js 46-48
StepIdentifier ==
    /\ AtNode("Identifier")
    /\ stack' = Append(Below, [Top EXCEPT !.parts = Tail(@),
                                          !.result = Append(@, Node.name)])
    /\ UNCHANGED <<varsParse, entry, input, resolution, status, retval>>

\* expressionTo.js 49-51
StepLiteral ==
    /\ AtNode("Literal")
    /\ stack' = Append(Below, [Top EXCEPT !.parts = Tail(@),
                                          !.result = Append(@, Node.raw)])
    /\ UNCHANGED <<varsParse, entry, input, resolution, status, retval>>

\* expressionTo.js 52-54
StepThisExpression ==
    /\ AtNode("ThisExpression")
    /\ stack' = Append(Below, [Top EXCEPT !.parts = Tail(@),
                                          !.result = Append(@, "this")])
    /\ UNCHANGED <<varsParse, entry, input, resolution, status, retval>>

\* A variant writing each property value first.
ValueFirst(key, value) == value \o ": " \o key

\* expressionTo.js 57-59
RenderProperty(key, value) == key \o ": " \o value

\* expressionTo.js 61
RenderObject(properties) == "{" \o Join(properties, ", ") \o "}"

\* expressionTo.js 64-71
RenderArray(elements) == "[" \o Join(elements, ", ") \o "]"

\* expressionTo.js 55-58: map() over the properties begins with toString of the
\* first key; with no property, 61 pushes "{}" at once.
StepObjectExpression ==
    /\ AtNode("ObjectExpression")
    /\ IF Node.properties = <<>>
       THEN stack' = Append(Below, [Top EXCEPT !.parts = Tail(@),
                                               !.result = Append(@, RenderObject(<<>>))])
       ELSE /\ Len(stack) < MaxStack
            /\ stack' = Append(Append(Below,
                                      [Top EXCEPT !.parts = Tail(@),
                                                  !.op = "key",
                                                  !.items = Node.properties,
                                                  !.strs = <<>>]),
                               Frame(Node.properties[1].key))
    /\ UNCHANGED <<varsParse, entry, input, resolution, status, retval>>

\* expressionTo.js 63-68: map() over the elements begins with toString of the
\* first; with no element, 64 pushes "[]" at once.
StepArrayExpression ==
    /\ AtNode("ArrayExpression")
    /\ IF Node.elements = <<>>
       THEN stack' = Append(Below, [Top EXCEPT !.parts = Tail(@),
                                               !.result = Append(@, RenderArray(<<>>))])
       ELSE /\ Len(stack) < MaxStack
            /\ stack' = Append(Append(Below,
                                      [Top EXCEPT !.parts = Tail(@),
                                                  !.op = "element",
                                                  !.items = Node.elements,
                                                  !.strs = <<>>]),
                               Frame(Node.elements[1]))
    /\ UNCHANGED <<varsParse, entry, input, resolution, status, retval>>

\* expressionTo.js 28, 73-74: a node of any other kind is shifted off and dropped
StepOtherNode ==
    /\ status = "running"
    /\ Top.op = "loop"
    /\ Len(Top.parts) > 0
    /\ Node.type \notin KnownTypes
    /\ stack' = Append(Below, [Top EXCEPT !.parts = Tail(@)])
    /\ UNCHANGED <<varsParse, entry, input, resolution, status, retval>>

\* A call toArray is about to make: of itself on a resolved key, or of toString
\* on the first property or element of a literal.
MakesCall ==
    \/ /\ Node.type = "MemberExpression"
       /\ Node.computed
       /\ \E resolvedPath \in ResolveTargets : resolveToValue(Node.property, resolvedPath)
    \/ Node.type = "ObjectExpression" /\ Node.properties # <<>>
    \/ Node.type = "ArrayExpression" /\ Node.elements # <<>>

\* expressionTo.js 38, 58, 68: the call finds the engine's stack full and the
\* engine throws a RangeError, which nothing in toArray catches.
StackOverflow ==
    /\ status = "running"
    /\ Top.op = "loop"
    /\ Len(Top.parts) > 0
    /\ Len(stack) = MaxStack
    /\ MakesCall
    /\ status' = "threw"
    /\ UNCHANGED <<varsParse, entry, input, stack, resolution, retval>>

\* The loop has ended (27) and toArray returns (76).
Returning ==
    /\ status = "running"
    /\ Top.op = "loop"
    /\ Len(Top.parts) = 0
Returned == Reverse(Top.result)
Caller == stack[Len(stack) - 1]
Callers == SubSeq(stack, 1, Len(stack) - 2)

\* expressionTo.js 76, 83: back in the caller of the exported function
ReturnToCaller ==
    /\ Returning
    /\ Len(stack) = 1
    /\ retval' = IF entry = "toString" THEN Join(Returned, ".") ELSE Returned
    /\ status' = "returned"
    /\ stack' = <<>>
    /\ UNCHANGED <<varsParse, entry, input, resolution>>

\* expressionTo.js 38: result = result.concat(toArray(resolvedPath))
ReturnResolved ==
    /\ Returning
    /\ Len(stack) > 1
    /\ Caller.op = "concat"
    /\ stack' = Append(Callers, [Caller EXCEPT !.result = @ \o Returned,
                                               !.op = "loop"])
    /\ UNCHANGED <<varsParse, entry, input, resolution, status, retval>>

\* expressionTo.js 58: toString(key) is back; toString(value) is called
ReturnKey ==
    /\ Returning
    /\ Len(stack) > 1
    /\ Caller.op = "key"
    /\ stack' = Append(Append(Callers, [Caller EXCEPT !.key = Join(Returned, "."),
                                                      !.op = "value"]),
                       Frame(Caller.items[1].value))
    /\ UNCHANGED <<varsParse, entry, input, resolution, status, retval>>

\* expressionTo.js 56-62: toString(value) is back; map() goes on to the next
\* property, or ends and the literal's text is pushed
ReturnValue ==
    /\ Returning
    /\ Len(stack) > 1
    /\ Caller.op = "value"
    /\ LET strs == Append(Caller.strs, RenderProperty(Caller.key, Join(Returned, ".")))
           items == Tail(Caller.items)
       IN IF items = <<>>
          THEN stack' = Append(Callers,
                               [Caller EXCEPT !.result = Append(@, RenderObject(strs)),
                                              !.op = "loop", !.items = <<>>,
                                              !.strs = <<>>, !.key = ""])
          ELSE stack' = Append(Append(Callers,
                                      [Caller EXCEPT !.op = "key", !.items = items,
                                                     !.strs = strs, !.key = ""]),
                               Frame(items[1].key))
    /\ UNCHANGED <<varsParse, entry, input, resolution, status, retval>>

\* expressionTo.js 64-71: toString(element) is back; map() goes on to the next
\* element, or ends and the literal's text is pushed
ReturnElement ==
    /\ Returning
    /\ Len(stack) > 1
    /\ Caller.op = "element"
    /\ LET strs == Append(Caller.strs, Join(Returned, "."))
           items == Tail(Caller.items)
       IN IF items = <<>>
          THEN stack' = Append(Callers,
                               [Caller EXCEPT !.result = Append(@, RenderArray(strs)),
                                              !.op = "loop", !.items = <<>>,
                                              !.strs = <<>>])
          ELSE stack' = Append(Append(Callers,
                                      [Caller EXCEPT !.items = items, !.strs = strs]),
                               Frame(items[1]))
    /\ UNCHANGED <<varsParse, entry, input, resolution, status, retval>>

ExprNext ==
    \/ Invoke
    \/ StepCallExpression
    \/ StepStaticMember
    \/ StepComputedResolved
    \/ StepComputedUnresolved
    \/ StepIdentifier
    \/ StepLiteral
    \/ StepThisExpression
    \/ StepObjectExpression
    \/ StepArrayExpression
    \/ StepOtherNode
    \/ StackOverflow
    \/ ReturnToCaller
    \/ ReturnResolved
    \/ ReturnKey
    \/ ReturnValue
    \/ ReturnElement

ExprSpec == Init /\ [][ExprNext]_vars

\* A call runs on until it returns or throws: nothing suspends it.
ExprFairSpec == ExprSpec /\ WF_vars(ExprNext)

(***************************************************************************)
(* What toArray is to compute, said without the machine.                   *)
(***************************************************************************)
\* A chain of static property accesses and calls over an identifier or this.
RECURSIVE IsStaticChain(_)
IsStaticChain(n) ==
    CASE n.type \in {"Identifier", "ThisExpression"} -> TRUE
      [] n.type = "CallExpression" -> IsStaticChain(n.callee)
      [] n.type = "MemberExpression" -> ~n.computed /\ IsStaticChain(n.object)
      [] OTHER -> FALSE

\* Its path: the root's segment, then the property names, root to leaf.
RECURSIVE Path(_)
Path(n) ==
    CASE n.type = "Identifier" -> <<n.name>>
      [] n.type = "ThisExpression" -> <<"this">>
      [] n.type = "CallExpression" -> Path(n.callee)
      [] OTHER -> Append(Path(n.object), n.property.name)

\* A tree with no computed property access in it.
RECURSIVE IsPlain(_)
IsPlain(n) ==
    CASE n.type = "CallExpression" -> IsPlain(n.callee)
      [] n.type = "MemberExpression" -> ~n.computed /\ IsPlain(n.object)
      [] n.type = "ObjectExpression" ->
            \A i \in 1..Len(n.properties) :
                IsPlain(n.properties[i].key) /\ IsPlain(n.properties[i].value)
      [] n.type = "ArrayExpression" ->
            \A i \in 1..Len(n.elements) : IsPlain(n.elements[i])
      [] OTHER -> TRUE

\* The segments of a plain tree, root to leaf, a literal being one segment.
RECURSIVE Segments(_)
Segments(n) ==
    CASE n.type = "Identifier" -> <<n.name>>
      [] n.type = "Literal" -> <<n.raw>>
      [] n.type = "ThisExpression" -> <<"this">>
      [] n.type = "CallExpression" -> Segments(n.callee)
      [] n.type = "MemberExpression" -> Append(Segments(n.object), n.property.name)
      [] n.type = "ObjectExpression" ->
            <<"{" \o Join([i \in 1..Len(n.properties) |->
                              Join(Segments(n.properties[i].key), ".") \o ": "
                                  \o Join(Segments(n.properties[i].value), ".")],
                          ", ") \o "}">>
      [] n.type = "ArrayExpression" ->
            <<"[" \o Join([i \in 1..Len(n.elements) |->
                              Join(Segments(n.elements[i]), ".")],
                          ", ") \o "]">>
      [] OTHER -> <<>>

ExprDone == status \in {"returned", "threw"}
ResultOf(segments) == IF entry = "toString" THEN Join(segments, ".") ELSE segments

\* C6: for a chain of static property accesses and calls over an identifier or
\* this, toArray returns the root's segment followed by the property names, root
\* to leaf, a call adding none; toString returns them joined by ".".
C6_StaticChainPath ==
    (ExprDone /\ IsStaticChain(input)) =>
        /\ status = "returned"
        /\ entry = "toArray" => retval = Path(input)
        /\ entry = "toString" => retval = Join(Path(input), ".")

C6_Witness ==
    /\ status = "returned"
    /\ entry = "toArray"
    /\ input = MemberExpression(
                   CallExpression(MemberExpression(Identifier("foo"),
                                                   Identifier("b"), FALSE)),
                   Identifier("c"), FALSE)
    /\ retval = <<"foo", "b", "c">>

\* C7: toArray never fails, whatever the node and whatever the Value Resolver
\* answers; a computed access whose key does not resolve adds the one segment
\* "<computed>" at its place.
C7_NeverFails ==
    /\ status # "threw"
    /\ (/\ status = "returned"
        /\ input.type = "MemberExpression"
        /\ input.computed
        /\ IsPlain(input.object)
        /\ resolution[input.property] = Undefined)
           => retval = ResultOf(Append(Segments(input.object), "<computed>"))

\* C8: an object literal is one segment, "{" key ": " value pairs joined by ", "
\* "}", in declaration order; an array literal is one segment, "[" elements
\* joined by ", " "]"; nested literals follow the same rule.
C8_LiteralRendering ==
    (ExprDone /\ input.type \in {"ObjectExpression", "ArrayExpression"}
              /\ IsPlain(input)) =>
        /\ status = "returned"
        /\ retval = ResultOf(Segments(input))
        /\ entry = "toArray" => Len(retval) = 1

C8_Witness ==
    /\ status = "returned"
    /\ entry = "toArray"
    /\ input = ObjectExpression(<<Property(Identifier("a"),
                    ObjectExpression(<<Property(Identifier("a"), Literal("1")),
                                       Property(Identifier("b"), Literal("2"))>>))>>)
    /\ retval = <<"{a: {a: 1, b: 2}}">>

\* C9: when the key of a computed access resolves, toArray(obj[k]) is toArray(obj)
\* followed by toArray of the resolved expression, however many segments that has.
C9_ResolvedKeySpliced ==
    (/\ status = "returned"
     /\ input.type = "MemberExpression"
     /\ input.computed
     /\ IsPlain(input.object)
     /\ resolution[input.property] # Undefined
     /\ IsPlain(resolution[input.property]))
        => retval = ResultOf(Segments(input.object)
                                 \o Segments(resolution[input.property]))

\* C10: toArray terminates on every finite tree, whatever the Value Resolver
\* answers: the queue empties, every expansion of a resolved key ends, and the
\* call returns.
C10_AlwaysReturns == <>(status = "returned")

====
